---- MODULE Spec2Model ----
(***************************************************************************)
(* Model of src/genetic.py: a genetic algorithm for the two-way number     *)
(* partition problem (class Genetic).  Genes are Python strings over the   *)
(* characters '0' and '1'; they are modelled as sequences of the           *)
(* one-character strings "0" and "1".  Percentages (random.uniform(0,100)  *)
(* draws and the rounded cumulative thresholds of selection) are modelled  *)
(* in hundredths of a percent, the resolution of round(x, 2).              *)
(***************************************************************************)
EXTENDS Integers, Sequences, FiniteSets, TLC

VARIABLES
    list,                  \* self.list: the problem instance
    population,            \* self.population
    selectedGenes,         \* self.selectedGenes
    numericalPopulation,   \* self.numericalPopulation
    populationFitness,     \* self.populationFitness
    frequency,             \* self.frequency
    generation,            \* self.generation
    pc,                    \* position of the caller (main) / of crossover
    draws,                 \* selection: the values of `probability`, one per draw
    newGeneration,         \* crossover local
    parentOne,             \* crossover local
    parentTwo,             \* crossover local
    successfulFirstChild,  \* crossover local
    successfulSecondChild, \* crossover local
    crossoverPoint,        \* crossover local
    childOne,              \* crossover local
    childTwo,              \* crossover local
    gene,                  \* mutation: the argument
    mutationProbability,   \* mutation: the per-bit values of mutationProbability
    mutatedGene            \* mutation: the returned gene

vars == <<list, population, selectedGenes, numericalPopulation,
          populationFitness, frequency, generation, pc, draws,
          newGeneration, parentOne, parentTwo, successfulFirstChild,
          successfulSecondChild, crossoverPoint, childOne, childTwo,
          gene, mutationProbability, mutatedGene>>

runState == <<list, population, selectedGenes, numericalPopulation,
              populationFitness, frequency, generation>>

crossoverLocals == <<newGeneration, parentOne, parentTwo, successfulFirstChild,
                     successfulSecondChild, crossoverPoint, childOne, childTwo>>

mutationLocals == <<gene, mutationProbability, mutatedGene>>

(***************************************************************************)
(* Sizes.  The program fixes 20 individuals, a pool of 10, genes of 100    *)
(* bits (50 zeroes, 50 ones); the model scales them down.                  *)
(***************************************************************************)
PopSize == 2        \* 20 in the program: population size and frequency buckets
PoolSize == 2       \* 10 in the program: size of selectedGenes
Half == 2           \* 50 in the program: zeroes (and ones) per gene
MaxGeneration == 2  \* the generation sequence is repeated while generation <= MaxGeneration
MaxValue == 8       \* instance values of the partition check are drawn from 1..MaxValue

Length == 2 * Half  \* 100 in the program

Scale == 100        \* round(x, 2): two decimals = hundredths
Percent == 100      \* random.uniform(0, 100)
UMax == Percent * Scale

mutationRate == 1   \* self.mutationRate = 1.0 (percent)

None == <<"None">>  \* an unset local

(***************************************************************************)
(* Python helpers.                                                         *)
(***************************************************************************)
Range(s) == {s[i] : i \in DOMAIN s}

Min(a, b) == IF a < b THEN a ELSE b

abs(x) == IF x < 0 THEN -x ELSE x

\* s.count(c)
count(s, c) == Cardinality({i \in DOMAIN s : s[i] = c})

RECURSIVE sum(_)
\* sum(s)
sum(s) == IF s = <<>> THEN 0 ELSE s[1] + sum(Tail(s))

\* s[lo:hi] for 0 <= lo, with Python's clipping to len(s)
slice(s, lo, hi) == SubSeq(s, lo + 1, Min(hi, Len(s)))

\* int(c) for a character of a gene
int(c) == IF c = "0" THEN 0 ELSE 1

\* str(int(not b))
strNot(b) == IF b = 0 THEN "1" ELSE "0"

\* s.index(x): zero-based position of the first occurrence
index(s, x) == (CHOOSE i \in DOMAIN s : s[i] = x /\ \A j \in 1..(i - 1) : s[j] # x) - 1

\* sorted(s)
sorted(s) == SortSeq(s, LAMBDA a, b : a < b)

(***************************************************************************)
(* __init__                                                                *)
(***************************************************************************)
\* frequencyTable(): one empty bucket per key 0..19
frequencyTable == [i \in 0..(PopSize - 1) |-> <<>>]

\* random.sample(range(1, 10000), 100): distinct values; two instances
Instances == { [i \in 1..Length |-> i], [i \in 1..Length |-> i * i] }

unsetLocals ==
    /\ draws = <<>>
    /\ newGeneration = <<>>
    /\ parentOne = None
    /\ parentTwo = None
    /\ successfulFirstChild = FALSE
    /\ successfulSecondChild = FALSE
    /\ crossoverPoint = -1
    /\ childOne = None
    /\ childTwo = None
    /\ gene = None
    /\ mutationProbability = <<>>
    /\ mutatedGene = None

constructed ==
    /\ population = <<>>
    /\ selectedGenes = <<>>
    /\ numericalPopulation = <<>>
    /\ populationFitness = <<>>
    /\ frequency = frequencyTable
    /\ generation = 1
    /\ unsetLocals

Init ==
    /\ list \in Instances
    /\ constructed
    /\ pc = "generatePopulation"

(***************************************************************************)
(* generatePopulation(size, length)                                        *)
(***************************************************************************)
\* the outcomes of random.shuffle on 50 '0' followed by 50 '1'
shuffledStrings ==
    {g \in [1..Length -> {"0", "1"}] : count(g, "0") = Half}

generatePopulation ==
    /\ pc = "generatePopulation"
    /\ \E new \in [1..PopSize -> shuffledStrings] : population' = population \o new
    /\ pc' = "partition"
    /\ UNCHANGED <<list, selectedGenes, numericalPopulation, populationFitness,
                   frequency, generation, draws>>
    /\ UNCHANGED crossoverLocals
    /\ UNCHANGED mutationLocals

(***************************************************************************)
(* partition()                                                             *)
(***************************************************************************)
\* the values list[i] at the positions where the gene holds chromosome c
subsetOf(g, c) ==
    LET positions == SelectSeq([i \in 1..Len(g) |-> i], LAMBDA i : g[i] = c)
    IN  [k \in 1..Len(positions) |-> list[positions[k]]]

\* mutant: the two branches append to the wrong subsets
partitionGeneSwapped(g) == << subsetOf(g, "1"), subsetOf(g, "0") >>

\* subset = [subsetOne, subsetTwo] of one gene
partitionGene(g) == << subsetOf(g, "0"), subsetOf(g, "1") >>

partition ==
    /\ pc = "partition"
    /\ numericalPopulation' =
         numericalPopulation \o [k \in 1..Len(population) |-> partitionGene(population[k])]
    /\ pc' = "fitnessAssessment"
    /\ UNCHANGED <<list, population, selectedGenes, populationFitness,
                   frequency, generation, draws>>
    /\ UNCHANGED crossoverLocals
    /\ UNCHANGED mutationLocals

(***************************************************************************)
(* fitnessAssessment(population)                                           *)
(***************************************************************************)
differences(phenotypes) ==
    [k \in 1..Len(phenotypes) |-> abs(sum(phenotypes[k][1]) - sum(phenotypes[k][2]))]

sortedDifferences(phenotypes) == sorted(differences(phenotypes))

\* mutant: the fitness follows the sorted position instead of index()
fitnessAtByPosition(sortedDiffs, k) == Len(sortedDiffs) - 1 - (k - 1)

\* fitness of the k-th entry of the sorted differences
fitnessAt(sortedDiffs, k) ==
    Len(sortedDiffs) - 1 - index(sortedDiffs, sortedDiffs[k])

RECURSIVE assignFitness(_, _, _, _)
\* the loop over sortedDifferences from entry k on; self.frequency[fitness]
\* raises KeyError for a fitness that is no key of the table, after the
\* fitness was appended to populationFitness
assignFitness(sortedDiffs, k, fit, freq) ==
    IF k > Len(sortedDiffs)
    THEN [populationFitness |-> fit, frequency |-> freq, raised |-> FALSE]
    ELSE LET fitness == fitnessAt(sortedDiffs, k)
         IN  IF fitness \notin DOMAIN freq
             THEN [populationFitness |-> Append(fit, fitness), frequency |-> freq,
                   raised |-> TRUE]
             ELSE assignFitness(sortedDiffs, k + 1, Append(fit, fitness),
                                [freq EXCEPT ![fitness] = Append(@, sortedDiffs[k])])

fitnessAssessment ==
    /\ pc = "fitnessAssessment"
    /\ LET r == assignFitness(sortedDifferences(numericalPopulation), 1,
                              populationFitness, frequency)
       IN  /\ populationFitness' = r.populationFitness
           /\ frequency' = r.frequency
           /\ pc' = IF r.raised THEN "KeyError" ELSE "selection"
    /\ UNCHANGED <<list, population, selectedGenes, numericalPopulation,
                   generation, draws>>
    /\ UNCHANGED crossoverLocals
    /\ UNCHANGED mutationLocals

(***************************************************************************)
(* selection(count, population)                                            *)
(***************************************************************************)
RECURSIVE ascending(_)
\* the keys of a dict with the integer keys 0..n-1, in iteration order
ascending(S) ==
    IF S = {} THEN <<>>
    ELSE LET m == CHOOSE x \in S : \A y \in S : x <= y
         IN  <<m>> \o ascending(S \ {m})

keys(freq) == ascending(DOMAIN freq)

\* totalFitness: the sum of the keys of self.frequency
totalFitness(freq) == sum(keys(freq))

\* round(x * 100, 2) for the fraction x = num / den, in hundredths
roundPercent(num, den) == (2 * Percent * Scale * num + den) \div (2 * den)

\* mutant: the weights are the differences recorded in the buckets
weightedFitnessRecorded(freq) ==
    [i \in 1..Len(keys(freq)) |-> sum(freq[keys(freq)[i]])]

\* weightedFitness: float(key) / float(totalFitness), kept as the numerators
weightedFitness(freq) == keys(freq)

\* probabilities[i] = round(sum(weightedFitness[:i + 1]) * 100, 2)
probabilities(freq) ==
    [i \in 1..Len(keys(freq)) |->
        roundPercent(sum(SubSeq(weightedFitness(freq), 1, i)), totalFitness(freq))]

RECURSIVE pickStrict(_, _, _, _)
\* mutant: the comparison is < instead of <=
pickStrict(probability, pop, probs, n) ==
    IF n > Len(pop) THEN 0
    ELSE IF n > Len(probs) THEN -1
    ELSE IF probability < probs[n] THEN n
    ELSE pickStrict(probability, pop, probs, n + 1)

RECURSIVE pick(_, _, _, _)
\* the inner loop of one draw, from individual n on: the (1-based) position of
\* the selected individual, 0 when the loop ends without a selection, -1 when
\* probabilities[n] raises IndexError
pick(probability, pop, probs, n) ==
    IF n > Len(pop) THEN 0
    ELSE IF n > Len(probs) THEN -1
    ELSE IF probability <= probs[n] THEN n
    ELSE pick(probability, pop, probs, n + 1)

RECURSIVE newPopulationOf(_, _, _, _)
\* the outer loop over the draws d, from draw i on
newPopulationOf(d, pop, probs, i) ==
    IF i > Len(d) THEN [newPopulation |-> <<>>, raised |-> FALSE]
    ELSE LET n == pick(d[i], pop, probs, 1)
         IN  IF n = -1 THEN [newPopulation |-> <<>>, raised |-> TRUE]
             ELSE LET rest == newPopulationOf(d, pop, probs, i + 1)
                  IN  [newPopulation |->
                          (IF n = 0 THEN <<>> ELSE <<pop[n]>>) \o rest.newPopulation,
                       raised |-> rest.raised]

\* values of random.uniform(0, 100): a draw u is compared with thresholds that
\* are whole hundredths, and u <= t holds exactly when ceil(100 * u) <= t, so a
\* draw is represented by ceil(100 * u), which ranges over 0..UMax
Draws == {0, 1, 3333, UMax}

\* main calls selection(10, self.population)
selection ==
    /\ pc = "selection"
    /\ \E d \in [1..PoolSize -> Draws] :
          LET r == newPopulationOf(d, population, probabilities(frequency), 1)
          IN  /\ draws' = d
              /\ selectedGenes' = IF r.raised THEN selectedGenes ELSE r.newPopulation
              /\ pc' = IF r.raised THEN "IndexError" ELSE "crossover"
    /\ UNCHANGED <<list, population, numericalPopulation, populationFitness,
                   frequency, generation>>
    /\ UNCHANGED crossoverLocals
    /\ UNCHANGED mutationLocals

(***************************************************************************)
(* crossover()                                                             *)
(***************************************************************************)
\* validateGene(gene): False exactly when gene.count('0') is non-zero and
\* gene.count('1') != 50
validateGene(g) ==
    IF count(g, "0") # 0 /\ count(g, "1") # Half THEN FALSE ELSE TRUE

\* mutant: the second slice starts one position early
makeChildShifted(first, second, point) ==
    slice(first, 0, point + 1) \o slice(second, point, Length)

\* first[0 : crossoverPoint + 1] + second[crossoverPoint + 1 : 100]
makeChild(first, second, point) ==
    slice(first, 0, point + 1) \o slice(second, point + 1, Length)

\* mutant: random.randint(0, 98)
CrossoverPointsBelowLast == 0..(Length - 2)

\* random.randint(0, 99)
CrossoverPoints == 0..(Length - 1)

\* random.randint(0, 9), as 1-based positions
ParentIndexes == 1..PoolSize

\* newGeneration = []; the draws of the finished selection call are dropped
crossoverBegin ==
    /\ pc = "crossover"
    /\ newGeneration' = <<>>
    /\ draws' = <<>>
    /\ pc' = "outer"
    /\ UNCHANGED runState
    /\ UNCHANGED <<parentOne, parentTwo, successfulFirstChild, successfulSecondChild,
                   crossoverPoint, childOne, childTwo>>
    /\ UNCHANGED mutationLocals

\* while len(newGeneration) < 20: choose the two parents, clear the flags
crossoverPickParents ==
    /\ pc = "outer"
    /\ Len(newGeneration) < PopSize
    /\ \E i \in ParentIndexes, j \in ParentIndexes :
          IF i > Len(selectedGenes) \/ j > Len(selectedGenes)
          THEN /\ pc' = "IndexError"
               /\ UNCHANGED <<parentOne, parentTwo, successfulFirstChild,
                              successfulSecondChild>>
          ELSE /\ parentOne' = selectedGenes[i]
               /\ parentTwo' = selectedGenes[j]
               /\ successfulFirstChild' = FALSE
               /\ successfulSecondChild' = FALSE
               /\ pc' = "inner"
    /\ UNCHANGED runState
    /\ UNCHANGED <<draws, newGeneration, crossoverPoint, childOne, childTwo>>
    /\ UNCHANGED mutationLocals

\* one pass of the loop `while successfulFirstChild == False and
\* successfulSecondChild == False` with the crossover point p
crossoverAttempt(p) ==
    /\ pc = "inner"
    /\ successfulFirstChild = FALSE /\ successfulSecondChild = FALSE
    /\ LET c1 == makeChild(parentOne, parentTwo, p)
           c2 == makeChild(parentTwo, parentOne, p)
           ok1 == validateGene(c1)
           ok2 == validateGene(c2)
       IN  /\ crossoverPoint' = p
           /\ childOne' = c1
           /\ childTwo' = c2
           /\ newGeneration' = newGeneration \o (IF ok1 THEN <<c1>> ELSE <<>>)
                                             \o (IF ok2 THEN <<c2>> ELSE <<>>)
           /\ successfulFirstChild' = ok1
           /\ successfulSecondChild' = ok2
           /\ pc' = IF ok1 \/ ok2 THEN "outer" ELSE "inner"
    /\ UNCHANGED runState
    /\ UNCHANGED <<draws, parentOne, parentTwo>>
    /\ UNCHANGED mutationLocals

crossoverTry == \E p \in CrossoverPoints : crossoverAttempt(p)

\* the loop is left: self.population = newGeneration; self.generation += 1
crossoverReturn ==
    /\ pc = "outer"
    /\ ~(Len(newGeneration) < PopSize)
    /\ population' = newGeneration
    /\ generation' = generation + 1
    /\ pc' = "returned"
    /\ newGeneration' = <<>>
    /\ parentOne' = None
    /\ parentTwo' = None
    /\ successfulFirstChild' = FALSE
    /\ successfulSecondChild' = FALSE
    /\ crossoverPoint' = -1
    /\ childOne' = None
    /\ childTwo' = None
    /\ UNCHANGED <<list, selectedGenes, numericalPopulation, populationFitness,
                   frequency, draws>>
    /\ UNCHANGED mutationLocals

(***************************************************************************)
(* The generation sequence of main, repeated ("Repeat until convergence"). *)
(***************************************************************************)
repeat ==
    /\ pc = "returned"
    /\ generation <= MaxGeneration
    /\ pc' = "partition"
    /\ UNCHANGED runState
    /\ UNCHANGED draws
    /\ UNCHANGED crossoverLocals
    /\ UNCHANGED mutationLocals

Next ==
    \/ generatePopulation
    \/ partition
    \/ fitnessAssessment
    \/ selection
    \/ crossoverBegin
    \/ crossoverPickParents
    \/ crossoverTry
    \/ crossoverReturn
    \/ repeat

Spec == Init /\ [][Next]_vars

(***************************************************************************)
(* The calls of main up to selection.                                      *)
(***************************************************************************)
NextSelection ==
    \/ generatePopulation
    \/ partition
    \/ fitnessAssessment
    \/ selection

SpecSelection == Init /\ [][NextSelection]_vars

(***************************************************************************)
(* fitnessAssessment(population) on phenotype lists of every length up to  *)
(* one more than the number of buckets.                                    *)
(***************************************************************************)
AssessedLengths == 1..(PopSize + 1)

InitAssess ==
    /\ list \in Instances
    /\ \E n \in AssessedLengths : population \in [1..n -> shuffledStrings]
    /\ numericalPopulation = [k \in 1..Len(population) |-> partitionGene(population[k])]
    /\ selectedGenes = <<>>
    /\ populationFitness = <<>>
    /\ frequency = frequencyTable
    /\ generation = 1
    /\ unsetLocals
    /\ pc = "fitnessAssessment"

NextAssess == fitnessAssessment

SpecAssess == InitAssess /\ [][NextAssess]_vars

(***************************************************************************)
(* crossover() from the states in which main has entered it: the pool was  *)
(* selected from a population that holds the pool's genes (PoolSize <=     *)
(* PopSize), newGeneration is empty.                                       *)
(***************************************************************************)
\* shuffle outcomes the pool is drawn from: 0..01..1, 1..10..0, 0101..01,
\* 1010..10, 01..10..0 and 10..01..1 (every balanced gene when Half = 2)
ParentPatterns ==
    { [i \in 1..Length |-> IF i <= Half THEN "0" ELSE "1"],
      [i \in 1..Length |-> IF i <= Half THEN "1" ELSE "0"],
      [i \in 1..Length |-> IF i % 2 = 1 THEN "0" ELSE "1"],
      [i \in 1..Length |-> IF i % 2 = 1 THEN "1" ELSE "0"],
      [i \in 1..Length |-> IF i = 1 \/ i > Half + 1 THEN "0" ELSE "1"],
      [i \in 1..Length |-> IF i = 1 \/ i > Half + 1 THEN "1" ELSE "0"] }

InitCrossover ==
    /\ list = [i \in 1..Length |-> i]
    /\ selectedGenes \in [1..PoolSize -> ParentPatterns]
    /\ population = [k \in 1..PopSize |-> selectedGenes[((k - 1) % PoolSize) + 1]]
    /\ numericalPopulation = [k \in 1..PopSize |-> partitionGene(population[k])]
    /\ LET r == assignFitness(sortedDifferences(numericalPopulation), 1,
                              <<>>, frequencyTable)
       IN  /\ populationFitness = r.populationFitness
           /\ frequency = r.frequency
    /\ generation = 1
    /\ unsetLocals
    /\ pc = "outer"

NextCrossover ==
    \/ crossoverPickParents
    \/ crossoverTry
    \/ crossoverReturn

SpecCrossover == InitCrossover /\ [][NextCrossover]_vars

\* a pass of the retry loop that accepts a child
crossoverAccept == crossoverTry /\ pc' = "outer"

\* sequential code keeps running, and a uniformly random crossover point does
\* not avoid for ever the points that yield an accepted child
FairCrossover ==
    /\ SpecCrossover
    /\ WF_vars(NextCrossover)
    /\ WF_vars(crossoverAccept)

(***************************************************************************)
(* mutation(gene), called on a constructed object.                         *)
(***************************************************************************)
RECURSIVE mutationLoop(_, _, _, _, _, _)
\* the loop over the chromosomes of g from position k on; d[k] is the value
\* of mutationProbability drawn for chromosome k, in hundredths
mutationLoop(g, d, k, mutated, mutatedOnes, mutatedZeroes) ==
    IF k > Len(g)
    THEN [mutatedGene |-> mutated, mutatedOnes |-> mutatedOnes,
          mutatedZeroes |-> mutatedZeroes]
    ELSE IF d[k] < mutationRate * Scale
         THEN mutationLoop(g, d, k + 1, Append(mutated, strNot(int(g[k]))),
                           IF g[k] = "0" THEN mutatedOnes ELSE mutatedOnes + 1,
                           IF g[k] = "0" THEN mutatedZeroes + 1 ELSE mutatedZeroes)
         ELSE mutationLoop(g, d, k + 1, Append(mutated, g[k]),
                           mutatedOnes, mutatedZeroes)

\* mutant: the flipped gene is returned without the balance test
mutationResultUnchecked(g, d) == mutationLoop(g, d, 1, <<>>, 0, 0).mutatedGene

\* the value mutation(g) returns under the draws d
mutationResult(g, d) ==
    LET r == mutationLoop(g, d, 1, <<>>, 0, 0)
    IN  IF r.mutatedOnes = r.mutatedZeroes THEN r.mutatedGene ELSE g

\* values of random.uniform(0, 100): u < mutationRate holds exactly when
\* floor(100 * u) < 100 * mutationRate, so a draw is represented by floor(100 * u)
MutationDraws == {0, 99, 100, 5000}

\* the genes mutation is called with: every bit string of the gene length
MutationInputs == [1..Length -> {"0", "1"}]

InitMutation ==
    /\ list = [i \in 1..Length |-> i]
    /\ population = <<>>
    /\ selectedGenes = <<>>
    /\ numericalPopulation = <<>>
    /\ populationFitness = <<>>
    /\ frequency = frequencyTable
    /\ generation = 1
    /\ draws = <<>>
    /\ newGeneration = <<>>
    /\ parentOne = None
    /\ parentTwo = None
    /\ successfulFirstChild = FALSE
    /\ successfulSecondChild = FALSE
    /\ crossoverPoint = -1
    /\ childOne = None
    /\ childTwo = None
    /\ gene \in MutationInputs
    /\ mutationProbability = <<>>
    /\ mutatedGene = None
    /\ pc = "mutation"

mutation ==
    /\ pc = "mutation"
    /\ \E d \in [1..Len(gene) -> MutationDraws] :
          /\ mutationProbability' = d
          /\ mutatedGene' = mutationResult(gene, d)
    /\ pc' = "mutated"
    /\ UNCHANGED runState
    /\ UNCHANGED <<draws, gene>>
    /\ UNCHANGED crossoverLocals

NextMutation == mutation

SpecMutation == InitMutation /\ [][NextMutation]_vars

(***************************************************************************)
(* partition() on an arbitrary instance and an arbitrary bit string.       *)
(***************************************************************************)
\* lists of distinct values, as random.sample returns them
PartitionInstances ==
    {l \in [1..Length -> 1..MaxValue] : \A i, j \in 1..Length : i # j => l[i] # l[j]}

InitPartition ==
    /\ list \in PartitionInstances
    /\ population \in [1..1 -> [1..Length -> {"0", "1"}]]
    /\ selectedGenes = <<>>
    /\ numericalPopulation = <<>>
    /\ populationFitness = <<>>
    /\ frequency = frequencyTable
    /\ generation = 1
    /\ unsetLocals
    /\ pc = "partition"

NextPartition == partition

SpecPartition == InitPartition /\ [][NextPartition]_vars

(***************************************************************************)
(* Properties.                                                             *)
(***************************************************************************)
balanced(g) == count(g, "0") = Half /\ count(g, "1") = Half

\* C1: every genotype of the population, and every child crossover has
\* accepted, holds exactly Half zero-bits and Half one-bits.
C1_BalanceInvariant ==
    /\ \A k \in DOMAIN population : balanced(population[k])
    /\ \A k \in DOMAIN newGeneration : balanced(newGeneration[k])

\* C2: whenever crossover has returned, the population it installed holds
\* exactly PopSize children.
C2_PopulationSize ==
    pc = "returned" => Len(population) = PopSize

\* the differences of the phenotype list handed to fitnessAssessment
assessedDifferences ==
    [k \in 1..Len(numericalPopulation) |->
        abs(sum(numericalPopulation[k][1]) - sum(numericalPopulation[k][2]))]

\* C3 (as claimed): the fitness values of one fitnessAssessment call are a
\* permutation of 0..n-1, the k-th sorted difference getting n-1-k.
C3_PositionBasedPermutation ==
    pc = "selection" =>
        LET n == Len(numericalPopulation)
        IN  /\ Len(populationFitness) = n
            /\ \A k \in 1..n : populationFitness[k] = n - 1 - (k - 1)
            /\ Range(populationFitness) = 0..(n - 1)

\* C3 (amended): every fitness value one fitnessAssessment call appends is
\* n-1 minus the number of strictly smaller differences (the zero-based first
\* occurrence of its difference in the sorted list), so equal differences get
\* equal fitness values, and the values are a permutation of 0..n-1 exactly
\* when the differences are pairwise distinct.
C3_FirstOccurrenceRank ==
    pc \in {"selection", "KeyError"} =>
        LET n == Len(numericalPopulation)
            d == assessedDifferences
            s == SortSeq(d, LAMBDA a, b : a < b)
            m == Len(populationFitness)
            appended == IF pc = "KeyError" THEN 1 ELSE n
            base == m - appended
            smaller(x) == Cardinality({j \in 1..n : d[j] < x})
            fit(k) == populationFitness[base + k]
        IN  /\ base >= 0
            /\ \A k \in 1..appended : fit(k) = n - 1 - smaller(s[k])
            /\ \A k, l \in 1..appended : s[k] = s[l] => fit(k) = fit(l)
            /\ pc = "selection" =>
                  ( {fit(k) : k \in 1..n} = 0..(n - 1)
                      <=> \A i, j \in 1..n : i # j => d[i] # d[j] )

\* C3 witness: a completed call on a list holding two equal differences
C3_Witness ==
    /\ pc = "selection"
    /\ \E i, j \in 1..Len(numericalPopulation) :
          i # j /\ assessedDifferences[i] = assessedDifferences[j]
    /\ Len(populationFitness) = Len(numericalPopulation)

\* position of value v in the instance (the values are distinct)
positionIn(v) == CHOOSE i \in DOMAIN list : list[i] = v

\* C4: partition routes list[i] to the first subset when the bit is 0 and to
\* the second when it is 1; the subsets' sizes add up to the length, together
\* they hold the instance's values exactly once each, in instance order.
C4_PartitionLossless ==
    pc = "fitnessAssessment" =>
        /\ Len(numericalPopulation) = Len(population)
        /\ \A k \in DOMAIN population :
              LET g == population[k]
                  subsetZero == numericalPopulation[k][1]
                  subsetOne == numericalPopulation[k][2]
              IN  /\ Len(subsetZero) + Len(subsetOne) = Len(list)
                  /\ \A i \in DOMAIN g :
                        /\ g[i] = "0" => list[i] \in Range(subsetZero)
                        /\ g[i] = "1" => list[i] \in Range(subsetOne)
                  /\ \A v \in Range(list) \cup Range(subsetZero) \cup Range(subsetOne) :
                        count(subsetZero, v) + count(subsetOne, v) = count(list, v)
                  /\ \A a, b \in DOMAIN subsetZero :
                        a < b => positionIn(subsetZero[a]) < positionIn(subsetZero[b])
                  /\ \A a, b \in DOMAIN subsetOne :
                        a < b => positionIn(subsetOne[a]) < positionIn(subsetOne[b])

\* C4 witness: instance [5, 3, 8, 1] with genotype 0011 gives [5, 3] and [8, 1]
C4_Witness ==
    /\ pc = "fitnessAssessment"
    /\ list = <<5, 3, 8, 1>>
    /\ population = << <<"0", "0", "1", "1">> >>
    /\ numericalPopulation = << << <<5, 3>>, <<8, 1>> >> >>

\* the positions mutation flips under the recorded draws, by original value
flippedZeroes == {k \in DOMAIN gene : gene[k] = "0" /\ mutationProbability[k] < mutationRate * Scale}

flippedOnes == {k \in DOMAIN gene : gene[k] = "1" /\ mutationProbability[k] < mutationRate * Scale}

flippedGene ==
    [k \in DOMAIN gene |->
        IF k \in flippedZeroes THEN "1" ELSE IF k \in flippedOnes THEN "0" ELSE gene[k]]

\* C5: mutation returns the flipped gene exactly when as many zeroes as ones
\* were flipped and the input otherwise; the result has the input's length,
\* zero count and one count; the run state stays as constructed.
C5_MutationAllOrNothing ==
    pc = "mutated" =>
        /\ mutatedGene \in {gene, flippedGene}
        /\ Cardinality(flippedZeroes) = Cardinality(flippedOnes) <=> mutatedGene = flippedGene
        /\ Cardinality(flippedZeroes) # Cardinality(flippedOnes) => mutatedGene = gene
        /\ Len(mutatedGene) = Len(gene)
        /\ count(mutatedGene, "0") = count(gene, "0")
        /\ count(mutatedGene, "1") = count(gene, "1")
        /\ population = <<>>
        /\ selectedGenes = <<>>
        /\ frequency = frequencyTable
        /\ generation = 1

\* C5 witness: a zero and a one were flipped and the changed gene was returned
C5_Witness ==
    /\ pc = "mutated"
    /\ Cardinality(flippedZeroes) = 1
    /\ Cardinality(flippedOnes) = 1
    /\ mutatedGene # gene

\* C6: selection leaves exactly PoolSize genes in selectedGenes, one per draw,
\* each the first member of the population whose cumulative threshold is >= the
\* draw; no draw selects nothing.
C6_SelectionFillsPool ==
    pc = "crossover" =>
        /\ Len(draws) = PoolSize
        /\ Len(selectedGenes) = PoolSize
        /\ LET threshold == probabilities(frequency)
           IN  \A i \in 1..PoolSize :
                  \E n \in DOMAIN population :
                      /\ selectedGenes[i] = population[n]
                      /\ draws[i] <= threshold[n]
                      /\ \A m \in 1..(n - 1) : draws[i] > threshold[m]

\* C6 witness: a draw of zero took the first member and a draw in the top
\* hundredth took a different one
C6_Witness ==
    /\ pc = "crossover"
    /\ Len(population) = PopSize
    /\ draws[1] = 0
    /\ draws[PoolSize] = UMax
    /\ selectedGenes[1] = population[1]
    /\ selectedGenes[PoolSize] # population[1]

\* C7 (as claimed): every crossover point a pass of the retry loop uses lies
\* in [0, Length-2], so each child has the gene length and holds at least one
\* bit of each parent.
C7_PointBelowLastPosition ==
    [][pc = "inner" =>
        /\ crossoverPoint' \in 0..(Length - 2)
        /\ Len(childOne') = Length
        /\ Len(childTwo') = Length]_vars

\* C7 (amended): every crossover point a pass of the retry loop uses lies in
\* [0, Length-1]; each child has the gene length and is the first
\* crossoverPoint+1 bits of one parent followed by the remaining bits of the
\* other; at crossoverPoint = Length-1 each child is a whole copy of its
\* first parent.
C7_PointUpToLastPosition ==
    [][pc = "inner" =>
        /\ crossoverPoint' \in 0..(Length - 1)
        /\ Len(childOne') = Length
        /\ Len(childTwo') = Length
        /\ \A i \in 1..Length :
              /\ childOne'[i] = IF i <= crossoverPoint' + 1 THEN parentOne[i] ELSE parentTwo[i]
              /\ childTwo'[i] = IF i <= crossoverPoint' + 1 THEN parentTwo[i] ELSE parentOne[i]
        /\ crossoverPoint' = Length - 1 => childOne' = parentOne /\ childTwo' = parentTwo]_vars

\* C7 witness: the last position was drawn for two different parents
C7_Witness ==
    /\ pc = "outer"
    /\ crossoverPoint = Length - 1
    /\ parentOne # parentTwo
    /\ childOne = parentOne
    /\ childTwo = parentTwo

\* C8: in every generation the evaluated phenotype list holds one phenotype
\* per genotype of the population and every fitness value assigned is a
\* bucket 0..PopSize-1 of the frequency table.
C8_RanksInRange ==
    /\ pc = "fitnessAssessment" => Len(numericalPopulation) = Len(population)
    /\ \A k \in DOMAIN populationFitness : populationFitness[k] \in 0..(PopSize - 1)

\* some crossover point yields an accepted child for the current parents
someChildAccepted ==
    \E p \in CrossoverPoints :
        \/ validateGene(makeChild(parentOne, parentTwo, p))
        \/ validateGene(makeChild(parentTwo, parentOne, p))

\* a step of a crossover call changes the generation counter only by the one
\* increment of its return
countedOnce ==
    pc \in {"outer", "inner"} =>
        generation' = IF pc' = "returned" THEN generation + 1 ELSE generation

\* C9: in every state of the retry loop some crossover point yields an
\* accepted child, and under fair choice of the points a started crossover
\* call returns with the generation counter incremented once.
C9_CrossoverTerminates ==
    /\ [](pc = "inner" => someChildAccepted)
    /\ pc = "outer" ~> pc = "returned"
    /\ [][countedOnce]_vars

\* C9 witness: the crossover call of the first generation has returned
C9_Witness ==
    /\ pc = "returned"
    /\ generation = 2
    /\ Len(population) >= PopSize

\* round(100 * (0 + 1 + ... + n) / (0 + 1 + ... + (PopSize-1)), 2) in hundredths
closedThreshold(n) ==
    LET total == (PopSize * (PopSize - 1)) \div 2
        upTo == (n * (n + 1)) \div 2
    IN  (2 * UMax * upTo + total) \div (2 * total)

\* C10: whatever the frequency buckets hold, draw u chooses population[n]
\* exactly when threshold[n-1] < u <= threshold[n], the thresholds being a
\* function of the bucket indices alone.
C10_SelectionIgnoresFitness ==
    pc = "crossover" =>
        /\ Len(selectedGenes) = Len(draws)
        /\ \A i \in DOMAIN draws :
              \A n \in 0..(PopSize - 1) :
                  ( /\ n > 0 => closedThreshold(n - 1) < draws[i]
                    /\ draws[i] <= closedThreshold(n) )
                  => selectedGenes[i] = population[n + 1]

\* C10 witness: both members were chosen while the buckets held differences
C10_Witness ==
    /\ pc = "crossover"
    /\ selectedGenes[1] # selectedGenes[2]
    /\ \A b \in DOMAIN frequency : frequency[b] # <<>>
    /\ frequency[0] # frequency[PopSize - 1]

====
